---- MODULE Spec2Model ----
(***************************************************************************)
(* A model of cerca.py: the query matcher (check_event), the nearest       *)
(* station ranker (set_nearest_stations), the two feed filters             *)
(* (find_today_events, find_monthly_events) and the pipeline of main.      *)
(*                                                                         *)
(* Strings are sequences of one-letter characters.  Distances are in       *)
(* millimetres; max_distance, an integer number of metres in the program,  *)
(* is held in millimetres too.  Python's None is the record NoneValue.     *)
(* A reference to a Station object is the station's index in `stations`.   *)
(***************************************************************************)
EXTENDS Integers, Sequences, FiniteSets, TLC

VARIABLES
    pc,             \* position of the program
    key,            \* args['key']: the query text, a sequence of tokens
    date_arg,       \* args['date'] when given, else NoneValue
    today_feed,     \* the 'acte' elements behind TODAY_EVENTS_URL
    monthly_feed,   \* the 'acte' elements behind MONTHLY_EVENTS_URL
    bicing_feed,    \* the 'station' elements behind BICING_URL
    search_terms,   \* the parsed query
    date,           \* the parsed target date
    events,         \* the list of Event objects
    stations,       \* the list of Station objects
    max_distance,   \* args['distance']
    fetched,        \* the URLs opened so far
    report,         \* the events written to index.html, NoReport before
    result          \* what check_event returned

vars == <<pc, key, date_arg, today_feed, monthly_feed, bicing_feed,
          search_terms, date, events, stations, max_distance, fetched,
          report, result>>

\* ------------------------------------------------------------------------
\* Bounds of the model.

MaxNodes == 4       \* nodes of a search expression
MaxFeed == 2        \* 'acte' elements of a feed
MaxEvents == 2      \* events handed to set_nearest_stations
MaxStations == 3    \* stations handed to set_nearest_stations

\* ------------------------------------------------------------------------
\* Values.

NoneValue == [none |-> TRUE]

NoReport == [written |-> FALSE]

Range(s) == {s[i] : i \in 1..Len(s)}

SeqsUpTo(S, n) == UNION {[1..k -> S] : k \in 0..n}

\* ------------------------------------------------------------------------
\* Search expressions: the values ast.literal_eval can hand to check_event.
\* kind is the Python type: "str", "list", "tuple", or "other" for a literal
\* of any other type (a number, here).

Str(s) == [kind |-> "str", val |-> s, elems |-> <<>>]

List(es) == [kind |-> "list", val |-> <<>>, elems |-> es]

Tuple(es) == [kind |-> "tuple", val |-> <<>>, elems |-> es]

Other == [kind |-> "other", val |-> <<>>, elems |-> <<>>]

Terms == {<<"a">>, <<"a", "b">>}

Leaves == {Str(t) : t \in Terms} \cup {Other}

RECURSIVE TreesOfSize(_), ForestsOfSize(_)

\* The expressions with exactly n nodes.
TreesOfSize(n) ==
    IF n = 1
    THEN Leaves \cup {List(<<>>), Tuple(<<>>)}
    ELSE {List(f) : f \in ForestsOfSize(n - 1)}
            \cup {Tuple(f) : f \in ForestsOfSize(n - 1)}

\* The non-empty sequences of expressions with n nodes in total.
ForestsOfSize(n) ==
    {<<t>> : t \in TreesOfSize(n)}
        \cup UNION {{<<t>> \o f : t \in TreesOfSize(k), f \in ForestsOfSize(n - k)} :
                        k \in 1..(n - 1)}

Expressions == UNION {TreesOfSize(n) : n \in 1..MaxNodes}

RECURSIVE WellFormed(_)

\* A tree made only of Term (str), Conjunction (list) and Disjunction (tuple).
WellFormed(e) ==
    /\ e.kind \in {"str", "list", "tuple"}
    /\ \A i \in DOMAIN e.elems : WellFormed(e.elems[i])

\* ------------------------------------------------------------------------
\* Event and Station objects.

LatLong(lat, lon) == [latitude |-> lat, longitude |-> lon]

\* Event.__init__: the keyword fields, and two fresh empty result lists.
Event(d, n, p, a, c) ==
    [date |-> d, name |-> n, place |-> p, address |-> a, coords |-> c,
     stations_with_bikes |-> <<>>, stations_with_slots |-> <<>>]

\* Station.__init__
Station(sl, b, c, st, num) ==
    [slots |-> sl, bikes |-> b, coords |-> c, street |-> st, number |-> num]

\* ------------------------------------------------------------------------
\* check_event.  An outcome is "True", "False", or "raise" for an exception
\* that leaves the call.

PyBool(b) == IF b THEN "True" ELSE "False"

\* Python's `t in s` on two strings.
Contains(s, t) ==
    \E i \in 1..(Len(s) - Len(t) + 1) : SubSeq(s, i, i + Len(t) - 1) = t

\* line 92 with the place and the address left out
TermInNameOnly(event, t) == Contains(event.name, t)

\* line 92
TermMatch(event, t) ==
    \/ Contains(event.name, t)
    \/ Contains(event.place, t)
    \/ Contains(event.address, t)

\* line 98: the conjunction's loop ran to its end
ConjunctionDone == "True"

\* line 104: the disjunction's loop ran to its end
DisjunctionDone == "False"

\* line 105 as a raise
OtherKindRaises == "raise"

\* line 105: search_terms is neither a str, a list nor a tuple
OtherKind == "False"

RECURSIVE check_event(_, _), ConjunctionLoop(_, _, _), DisjunctionLoop(_, _, _)

\* lines 95-98, from the i-th element on
ConjunctionLoop(event, elems, i) ==
    IF i > Len(elems)
    THEN ConjunctionDone
    ELSE LET r == check_event(event, elems[i])
         IN  IF r = "raise" THEN "raise"
             ELSE IF r # "True" THEN "False"
             ELSE ConjunctionLoop(event, elems, i + 1)

\* lines 101-104, from the i-th element on
DisjunctionLoop(event, elems, i) ==
    IF i > Len(elems)
    THEN DisjunctionDone
    ELSE LET r == check_event(event, elems[i])
         IN  IF r = "raise" THEN "raise"
             ELSE IF r = "True" THEN "True"
             ELSE DisjunctionLoop(event, elems, i + 1)

check_event(event, terms) ==
    IF terms.kind = "str" THEN PyBool(TermMatch(event, terms.val))
    ELSE IF terms.kind = "list" THEN ConjunctionLoop(event, terms.elems, 1)
    ELSE IF terms.kind = "tuple" THEN DisjunctionLoop(event, terms.elems, 1)
    ELSE OtherKind

\* ------------------------------------------------------------------------
\* ast.literal_eval (line 204) on a query text.  A text is a sequence of
\* tokens: brackets, parentheses, commas, string literals, a number, a bare
\* name.  The outcome is the value, or ok = FALSE for the SyntaxError or
\* ValueError the call raises.

Tok(t) == [t |-> t, s |-> <<>>]

StrTok(s) == [t |-> "str", s |-> s]

ParseFail == [ok |-> FALSE, val |-> Other, next |-> 0]

ItemsFail == [ok |-> FALSE, items |-> <<>>, comma |-> FALSE, next |-> 0]

RECURSIVE StrRun(_, _)

\* Adjacent string literals are one string.
StrRun(toks, i) ==
    IF i <= Len(toks) /\ toks[i].t = "str"
    THEN LET rest == StrRun(toks, i + 1)
         IN  [s |-> toks[i].s \o rest.s, next |-> rest.next]
    ELSE [s |-> <<>>, next |-> i]

RECURSIVE ParseExpr(_, _), ParseItems(_, _, _)

\* The expression starting at token i.
ParseExpr(toks, i) ==
    IF i > Len(toks) THEN ParseFail
    ELSE CASE toks[i].t = "str" ->
                LET run == StrRun(toks, i)
                IN  [ok |-> TRUE, val |-> Str(run.s), next |-> run.next]
           [] toks[i].t = "num" -> [ok |-> TRUE, val |-> Other, next |-> i + 1]
           [] toks[i].t = "[" ->
                LET r == ParseItems(toks, i + 1, "]")
                IN  IF r.ok
                    THEN [ok |-> TRUE, val |-> List(r.items), next |-> r.next]
                    ELSE ParseFail
           [] toks[i].t = "(" ->
                LET r == ParseItems(toks, i + 1, ")")
                IN  IF ~r.ok THEN ParseFail
                    ELSE IF Len(r.items) = 1 /\ ~r.comma
                    THEN [ok |-> TRUE, val |-> r.items[1], next |-> r.next]
                    ELSE [ok |-> TRUE, val |-> Tuple(r.items), next |-> r.next]
           [] OTHER -> ParseFail

\* The comma-separated expressions from token i up to the closing token; a
\* comma may end them.
ParseItems(toks, i, close) ==
    IF i > Len(toks) THEN ItemsFail
    ELSE IF toks[i].t = close
    THEN [ok |-> TRUE, items |-> <<>>, comma |-> FALSE, next |-> i + 1]
    ELSE LET e == ParseExpr(toks, i)
         IN  IF ~e.ok \/ e.next > Len(toks) THEN ItemsFail
             ELSE IF toks[e.next].t = close
             THEN [ok |-> TRUE, items |-> <<e.val>>, comma |-> FALSE,
                   next |-> e.next + 1]
             ELSE IF toks[e.next].t = ","
             THEN LET r == ParseItems(toks, e.next + 1, close)
                  IN  IF r.ok
                      THEN [ok |-> TRUE, items |-> <<e.val>> \o r.items,
                            comma |-> TRUE, next |-> r.next]
                      ELSE ItemsFail
             ELSE ItemsFail

literal_eval(text) ==
    LET r == ParseItems(text \o <<Tok("end")>>, 1, "end")
    IN  IF ~r.ok \/ Len(r.items) = 0 THEN [ok |-> FALSE, val |-> Other]
        ELSE IF Len(r.items) = 1 /\ ~r.comma THEN [ok |-> TRUE, val |-> r.items[1]]
        ELSE [ok |-> TRUE, val |-> Tuple(r.items)]

\* ------------------------------------------------------------------------
\* datetime.strptime(text, '%d/%m/%Y') (lines 206, 230).  A date text is
\* its three numbers; the outcome is the date, or ok = FALSE for the
\* ValueError.

DateText(d, m, y) == [d |-> d, m |-> m, y |-> y]

DaysIn(m, y) ==
    IF m = 2
    THEN IF (y % 4 = 0 /\ y % 100 # 0) \/ y % 400 = 0 THEN 29 ELSE 28
    ELSE IF m \in {4, 6, 9, 11} THEN 30 ELSE 31

strptime(text) ==
    IF text.m \in 1..12 /\ text.d \in 1..DaysIn(text.m, text.y)
    THEN [ok |-> TRUE, val |-> [year |-> text.y, month |-> text.m, day |-> text.d]]
    ELSE [ok |-> FALSE, val |-> NoneValue]

\* ------------------------------------------------------------------------
\* Event.fromElementTree and Station.fromElementTree.  An 'acte' element
\* has its nom, the nom of its lloc_simple, the texts of the items of its
\* adreca_simple, the date of its data_proper_acte and the googleMaps
\* element, NoneValue when absent.  The text of a number is <<n>>, a text
\* that is no number is <<>>.  The texts hold no character reference, on
\* which html.unescape would act.

RECURSIVE AddressLoop(_, _, _)

\* lines 243-245
AddressLoop(items, i, address) ==
    IF i > Len(items) THEN address
    ELSE AddressLoop(items, i + 1,
            IF items[i] # <<>> THEN address \o <<" ">> \o items[i] ELSE address)

RECURSIVE Strip(_)

\* str.strip
Strip(s) ==
    IF s # <<>> /\ s[1] = " " THEN Strip(Tail(s))
    ELSE IF s # <<>> /\ s[Len(s)] = " " THEN Strip(SubSeq(s, 1, Len(s) - 1))
    ELSE s

\* lines 247-256
CoordsOf(googleMaps) ==
    IF googleMaps = NoneValue THEN NoneValue
    ELSE IF googleMaps.lat = <<>> \/ googleMaps.lon = <<>> THEN NoneValue
    ELSE LatLong(googleMaps.lat[1], googleMaps.lon[1])

\* lines 226-257
EventFromElementTree(tree) ==
    Event(strptime(tree.data_proper_acte).val,
          tree.nom,
          tree.lloc_nom,
          Strip(AddressLoop(tree.adreca_simple, 1, <<>>)),
          CoordsOf(tree.googleMaps))

\* lines 270-278
StationFromElementTree(tree) ==
    Station(tree.slots[1], tree.bikes[1], LatLong(tree.lat[1], tree.long[1]),
            tree.street, tree.streetNumber)

\* ------------------------------------------------------------------------
\* find_today_events, find_monthly_events, get_bicing_stations, write_html.

RECURSIVE TodayLoop(_, _, _, _)

\* lines 127-130, from the i-th 'acte' on: the list built, and whether
\* check_event raised.
TodayLoop(feed, terms, res, i) ==
    IF i > Len(feed) THEN [events |-> res, raised |-> FALSE]
    ELSE LET event == EventFromElementTree(feed[i])
             r == check_event(event, terms)
         IN  IF r = "raise" THEN [events |-> res, raised |-> TRUE]
             ELSE IF r = "True" THEN TodayLoop(feed, terms, Append(res, event), i + 1)
             ELSE TodayLoop(feed, terms, res, i + 1)

\* lines 127-130 with the event put in front of the list
RECURSIVE TodayLoopPrepending(_, _, _, _)

TodayLoopPrepending(feed, terms, res, i) ==
    IF i > Len(feed) THEN [events |-> res, raised |-> FALSE]
    ELSE LET event == EventFromElementTree(feed[i])
             r == check_event(event, terms)
         IN  IF r = "raise" THEN [events |-> res, raised |-> TRUE]
             ELSE IF r = "True"
             THEN TodayLoopPrepending(feed, terms, <<event>> \o res, i + 1)
             ELSE TodayLoopPrepending(feed, terms, res, i + 1)

find_today_events_prepending(feed, terms) == TodayLoopPrepending(feed, terms, <<>>, 1)

\* lines 126-131
find_today_events(feed, terms) == TodayLoop(feed, terms, <<>>, 1)

\* line 116 without its left operand
AnyDate(event, target) == TRUE

\* line 116, left operand
OnDate(event, target) == event.date = target

RECURSIVE MonthlyLoop(_, _, _, _, _)

\* lines 114-117, from the i-th 'acte' on
MonthlyLoop(feed, terms, target, res, i) ==
    IF i > Len(feed) THEN [events |-> res, raised |-> FALSE]
    ELSE LET event == EventFromElementTree(feed[i])
         IN  IF ~OnDate(event, target)
             THEN MonthlyLoop(feed, terms, target, res, i + 1)
             ELSE LET r == check_event(event, terms)
                  IN  IF r = "raise" THEN [events |-> res, raised |-> TRUE]
                      ELSE IF r = "True"
                      THEN MonthlyLoop(feed, terms, target, Append(res, event), i + 1)
                      ELSE MonthlyLoop(feed, terms, target, res, i + 1)

\* lines 113-118
find_monthly_events(feed, terms, target) == MonthlyLoop(feed, terms, target, <<>>, 1)

\* lines 63-67
get_bicing_stations(feed) == [i \in 1..Len(feed) |-> StationFromElementTree(feed[i])]

\* lines 169-173 and 176-180: the items of one cell
Items(l, sts) ==
    [i \in 1..Len(l) |->
        [street |-> sts[l[i][1]].street, number |-> sts[l[i][1]].number,
         bikes |-> sts[l[i][1]].bikes, slots |-> sts[l[i][1]].slots,
         distance |-> l[i][2]]]

\* lines 157-180: the table's rows
Rows(evs, sts) ==
    [k \in 1..Len(evs) |->
        [name |-> evs[k].name, address |-> evs[k].address,
         place |-> evs[k].place, date |-> evs[k].date,
         stations_with_bikes |-> Items(evs[k].stations_with_bikes, sts),
         stations_with_slots |-> Items(evs[k].stations_with_slots, sts)]]

\* ------------------------------------------------------------------------
\* The matcher alone: check_event called on any event and any expression.

D1 == [year |-> 2018, month |-> 6, day |-> 1]

MatchEvents ==
    {Event(D1, n, p, a, NoneValue) :
        n \in {<<"b">>, <<"a", "b">>},
        p \in {<<"b">>, <<"a">>},
        a \in {<<>>, <<"b", "a", "b">>}}

InitMatch ==
    /\ pc = "check"
    /\ key = <<>>
    /\ date_arg = NoneValue
    /\ today_feed = <<>>
    /\ monthly_feed = <<>>
    /\ bicing_feed = <<>>
    /\ search_terms \in Expressions
    /\ date = NoneValue
    /\ events \in {<<e>> : e \in MatchEvents}
    /\ stations = <<>>
    /\ max_distance = 0
    /\ fetched = {}
    /\ report = NoReport
    /\ result = "pending"

CheckEvent ==
    /\ pc = "check"
    /\ result' = check_event(events[1], search_terms)
    /\ pc' = "checked"
    /\ UNCHANGED <<key, date_arg, today_feed, monthly_feed, bicing_feed,
                   search_terms, date, events, stations, max_distance,
                   fetched, report>>

NextMatch == CheckEvent

SpecMatch == InitMatch /\ [][NextMatch]_vars

RECURSIVE Matches(_, _)

\* The recursive reading of an expression: a term is a substring of one of
\* the three text fields, a conjunction holds when all its children do, a
\* disjunction when one does, a node of another kind matches nothing.
Matches(event, e) ==
    CASE e.kind = "str" ->
            \E f \in {event.name, event.place, event.address} : Contains(f, e.val)
      [] e.kind = "list" -> \A i \in DOMAIN e.elems : Matches(event, e.elems[i])
      [] e.kind = "tuple" -> \E i \in DOMAIN e.elems : Matches(event, e.elems[i])
      [] OTHER -> FALSE

\* C4: on a well-formed expression check_event returns the recursive
\* reading: term = substring of name, place or address; conjunction = all
\* children (empty: true); disjunction = some child (empty: false).
C4_MatchesReference ==
    (pc = "checked" /\ WellFormed(search_terms))
        => result = PyBool(Matches(events[1], search_terms))

\* C4 witness: a nested conjunction over a disjunction was evaluated to
\* true through a term found in the place only.
C4_Witness ==
    /\ pc = "checked"
    /\ search_terms = List(<<Tuple(<<Str(<<"a">>)>>), List(<<>>)>>)
    /\ ~Contains(events[1].name, <<"a">>)
    /\ ~Contains(events[1].address, <<"a">>)
    /\ result = "True"

\* C5 as stated: a node of another kind, at the top or nested, makes the
\* evaluation fail with an error instead of returning a match result.
C5_OtherKindFails ==
    (pc = "checked" /\ ~WellFormed(search_terms)) => result = "raise"

\* C5 amended: a node of another kind never fails the evaluation; it is
\* evaluated to False, alone or as a child of a conjunction or disjunction.
C5_OtherKindIsFalse ==
    (pc = "checked" /\ ~WellFormed(search_terms))
        => /\ result \in {"True", "False"}
           /\ result = PyBool(Matches(events[1], search_terms))
           /\ search_terms.kind = "other" => result = "False"

\* C5 witness: a disjunction holding a node of another kind and a matching
\* term was evaluated, to True.
C5_Witness ==
    /\ pc = "checked"
    /\ search_terms = Tuple(<<Other, Str(<<"a", "b">>)>>)
    /\ result = "True"

\* ------------------------------------------------------------------------
\* haversine_distance.  Coordinates are in units of 0.0001 degree.  The
\* trigonometry of lines 39-48 is outside TLA+: the distances between the
\* points used here are the values the function returns for them in IEEE
\* double arithmetic, in millimetres rounded up, so that the comparison
\* with a whole number of metres and the order of two distances are kept
\* (100075.43... mm twice, 200150.86..., 300226.30..., 400301.73...,
\* 500377.16...).

P0 == LatLong(413851, 21734)

P1 == LatLong(413860, 21734)

P3 == LatLong(413887, 21734)

P4 == LatLong(413842, 21734)

haversine_distance(origin, destination) ==
    LET ends == {origin, destination}
    IN  CASE origin = destination -> 0
          [] ends = {P0, P1} -> 100076
          [] ends = {P0, P4} -> 100076
          [] ends = {P1, P4} -> 200151
          [] ends = {P1, P3} -> 300227
          [] ends = {P0, P3} -> 400302
          [] ends = {P3, P4} -> 500378

\* ------------------------------------------------------------------------
\* set_nearest_stations.  An entry of a result list is the pair
\* <<station, distance>>.

\* line 75 with no event skipped
NeverSkip(event) == FALSE

\* line 75
SkipEvent(event) == event.coords = NoneValue

\* line 79 with no limit
AlwaysInRange(distance, limit) == TRUE

\* line 79
InRange(distance, limit) == distance <= limit

\* lines 80-83 with the elif read as a second if
ClassifyBoth(event, sts, i, distance) ==
    LET withSlots ==
            IF sts[i].slots > 0
            THEN [event EXCEPT !.stations_with_slots = Append(@, <<i, distance>>)]
            ELSE event
    IN  IF sts[i].bikes > 0
        THEN [withSlots EXCEPT !.stations_with_bikes = Append(@, <<i, distance>>)]
        ELSE withSlots

\* lines 80-83
Classify(event, sts, i, distance) ==
    IF sts[i].slots > 0
    THEN [event EXCEPT !.stations_with_slots = Append(@, <<i, distance>>)]
    ELSE IF sts[i].bikes > 0
    THEN [event EXCEPT !.stations_with_bikes = Append(@, <<i, distance>>)]
    ELSE event

RECURSIVE StationLoop(_, _, _, _)

\* lines 77-83, from the i-th station on
StationLoop(event, sts, limit, i) ==
    IF i > Len(sts)
    THEN event
    ELSE LET distance == haversine_distance(event.coords, sts[i].coords)
             next == IF InRange(distance, limit)
                     THEN Classify(event, sts, i, distance)
                     ELSE event
         IN  StationLoop(next, sts, limit, i + 1)

\* One step of a stable sort: e goes behind every entry that is not farther.
InsertByDistance(sorted, e) ==
    LET k == Cardinality({i \in 1..Len(sorted) : sorted[i][2] <= e[2]})
    IN  SubSeq(sorted, 1, k) \o <<e>> \o SubSeq(sorted, k + 1, Len(sorted))

RECURSIVE SortFrom(_, _, _)

SortFrom(sorted, l, i) ==
    IF i > Len(l) THEN sorted
    ELSE SortFrom(InsertByDistance(sorted, l[i]), l, i + 1)

\* lines 84-85 left out
NoSort(l) == l

\* A sort that puts an entry in front of the entries at the same distance.
RECURSIVE TiesReversedFrom(_, _, _)

TiesReversedFrom(sorted, l, i) ==
    IF i > Len(l) THEN sorted
    ELSE LET k == Cardinality({j \in 1..Len(sorted) : sorted[j][2] < l[i][2]})
         IN  TiesReversedFrom(
                 SubSeq(sorted, 1, k) \o <<l[i]>> \o SubSeq(sorted, k + 1, Len(sorted)),
                 l, i + 1)

SortTiesReversed(l) == TiesReversedFrom(<<>>, l, 1)

\* lines 84-85: list.sort(key=lambda e: e[1]), ascending and stable
SortByDistance(l) == SortFrom(<<>>, l, 1)

\* lines 77-85 for one event
RankEvent(event, sts, limit) ==
    LET filled == StationLoop(event, sts, limit, 1)
    IN  [filled EXCEPT !.stations_with_slots = SortByDistance(@),
                       !.stations_with_bikes = SortByDistance(@)]

\* line 78 reached with event.coords None: origin.longitude (line 40) is an
\* AttributeError.
CoordsMissing(event, sts) == event.coords = NoneValue /\ Len(sts) > 0

RECURSIVE EventLoop(_, _, _, _)

\* lines 74-85, from the i-th event on: the events as left, and whether an
\* exception ended the loop.
EventLoop(evs, sts, limit, i) ==
    IF i > Len(evs)
    THEN [events |-> evs, raised |-> FALSE]
    ELSE IF SkipEvent(evs[i])
    THEN EventLoop(evs, sts, limit, i + 1)
    ELSE IF CoordsMissing(evs[i], sts)
    THEN [events |-> evs, raised |-> TRUE]
    ELSE EventLoop([evs EXCEPT ![i] = RankEvent(@, sts, limit)], sts, limit, i + 1)

set_nearest_stations(evs, sts, limit) == EventLoop(evs, sts, limit, 1)

SetNearestStations ==
    /\ pc = "rank"
    /\ LET r == set_nearest_stations(events, stations, max_distance)
       IN  /\ events' = r.events
           /\ pc' = IF r.raised THEN "error" ELSE "write"
    /\ UNCHANGED <<key, date_arg, today_feed, monthly_feed, bicing_feed,
                   search_terms, date, stations, max_distance, fetched,
                   report, result>>

\* ------------------------------------------------------------------------
\* The ranker alone: set_nearest_stations called on freshly created events,
\* any stations and any limit.

StationKinds ==
    {Station(3, 0, P0, <<"a">>, 1), Station(5, 2, P1, <<"a">>, 2),
     Station(1, 0, P4, <<"b">>, 3), Station(0, 4, P1, <<"b">>, 4),
     Station(0, 1, P4, <<"a">>, 5), Station(0, 0, P0, <<"b">>, 6),
     Station(2, 2, P3, <<"a">>, 7)}

RankEvents ==
    {Event(D1, <<"a">>, <<"b">>, <<"a", "b">>, c) : c \in {NoneValue, P0, P1}}

\* --distance 0 and the default, 300
Limits == {0, 300000}

InitRank ==
    /\ pc = "rank"
    /\ key = <<>>
    /\ date_arg = NoneValue
    /\ today_feed = <<>>
    /\ monthly_feed = <<>>
    /\ bicing_feed = <<>>
    /\ search_terms = Str(<<>>)
    /\ date = NoneValue
    /\ events \in SeqsUpTo(RankEvents, MaxEvents)
    /\ stations \in SeqsUpTo(StationKinds, MaxStations)
    /\ max_distance \in Limits
    /\ fetched = {}
    /\ report = NoReport
    /\ result = "pending"

NextRank == SetNearestStations

SpecRank == InitRank /\ [][NextRank]_vars

Ranked == pc = "write"

\* The stations of a result list.
StationsOf(l) == {l[j][1] : j \in 1..Len(l)}

Near(event, i) ==
    /\ event.coords # NoneValue
    /\ haversine_distance(event.coords, stations[i].coords) <= max_distance

\* C1: a station is in at most one of an event's two lists: in range with
\* slots > 0 it is in stations_with_slots only, whatever its bikes; in range
\* with slots = 0 and bikes > 0 in stations_with_bikes only; with neither
\* slots nor bikes in neither list.
C1_OneListPerStation ==
    Ranked =>
        \A k \in 1..Len(events) : \A i \in 1..Len(stations) :
            LET inSlots == i \in StationsOf(events[k].stations_with_slots)
                inBikes == i \in StationsOf(events[k].stations_with_bikes)
            IN  /\ ~(inSlots /\ inBikes)
                /\ (Near(events[k], i) /\ stations[i].slots > 0)
                        => (inSlots /\ ~inBikes)
                /\ (Near(events[k], i) /\ stations[i].slots = 0
                                       /\ stations[i].bikes > 0)
                        => (inBikes /\ ~inSlots)
                /\ (stations[i].slots = 0 /\ stations[i].bikes = 0)
                        => (~inSlots /\ ~inBikes)

\* C1 witness: one event was ranked against a station with slots and bikes,
\* a station with bikes only and a station with neither, all in range.
C1_Witness ==
    /\ Ranked
    /\ \E k \in 1..Len(events) : \E i, j, n \in 1..Len(stations) :
        /\ Near(events[k], i) /\ Near(events[k], j) /\ Near(events[k], n)
        /\ stations[i].slots > 0 /\ stations[i].bikes > 0
        /\ stations[j].slots = 0 /\ stations[j].bikes > 0
        /\ stations[n].slots = 0 /\ stations[n].bikes = 0
        /\ StationsOf(events[k].stations_with_slots) = {i}
        /\ StationsOf(events[k].stations_with_bikes) = {j}

Entries(event) ==
    Range(event.stations_with_slots) \cup Range(event.stations_with_bikes)

\* C2: every entry of either list is within max_distance, its distance
\* being the geodistance from the event to the entry's station; with
\* max_distance 0 and no station at the event's place both lists are empty.
C2_WithinMaxDistance ==
    Ranked =>
        \A k \in 1..Len(events) :
            /\ \A e \in Entries(events[k]) :
                /\ e[2] <= max_distance
                /\ e[2] = haversine_distance(events[k].coords, stations[e[1]].coords)
            /\ (/\ max_distance = 0
                /\ \A i \in 1..Len(stations) : stations[i].coords # events[k].coords)
                    => Entries(events[k]) = {}

\* C2 witness: an event was ranked with a station just out of range, which
\* is absent, and a station in range, which is listed.
C2_Witness ==
    /\ Ranked
    /\ \E k \in 1..Len(events) : \E i, j \in 1..Len(stations) :
        /\ events[k].coords = P1
        /\ max_distance = 300000
        /\ stations[i].coords = P3 /\ stations[i].slots > 0
        /\ stations[j].coords = P4
        /\ i \notin StationsOf(events[k].stations_with_slots)
        /\ <<j, 200151>> \in Entries(events[k])

Ascending(l) == \A i, j \in 1..Len(l) : i < j => l[i][2] <= l[j][2]

\* C3: both lists of every event are in non-decreasing order of distance,
\* whatever the order of the stations.
C3_SortedByDistance ==
    Ranked =>
        \A k \in 1..Len(events) :
            /\ Ascending(events[k].stations_with_slots)
            /\ Ascending(events[k].stations_with_bikes)

\* C3 witness: stations given from the farthest to the nearest were ranked
\* and are listed from the nearest to the farthest.
C3_Witness ==
    /\ Ranked
    /\ Len(stations) = 3
    /\ \E k \in 1..Len(events) :
        /\ events[k].coords = P1
        /\ events[k].stations_with_slots = <<<<3, 0>>, <<2, 100076>>, <<1, 200151>>>>

\* C9: an event without coordinates keeps both lists empty, no error is
\* raised, and every event with coordinates, before or after it, is ranked:
\* its lists hold exactly the stations in range, by class.
C9_NoCoordsSkipped ==
    /\ pc # "error"
    /\ Ranked =>
        \A k \in 1..Len(events) :
            /\ events[k].coords = NoneValue => Entries(events[k]) = {}
            /\ events[k].coords # NoneValue =>
                /\ StationsOf(events[k].stations_with_slots) =
                        {i \in 1..Len(stations) :
                            Near(events[k], i) /\ stations[i].slots > 0}
                /\ StationsOf(events[k].stations_with_bikes) =
                        {i \in 1..Len(stations) :
                            /\ Near(events[k], i)
                            /\ stations[i].slots = 0
                            /\ stations[i].bikes > 0}

\* C9 witness: an event without coordinates came first, stations were
\* given, and the event after it has been ranked.
C9_Witness ==
    /\ Ranked
    /\ Len(events) = 2
    /\ events[1].coords = NoneValue
    /\ events[1].stations_with_slots = <<>>
    /\ events[1].stations_with_bikes = <<>>
    /\ events[2].stations_with_slots # <<>>
    /\ events[2].stations_with_bikes # <<>>

InStationOrder(l) ==
    \A i, j \in 1..Len(l) : (i < j /\ l[i][2] = l[j][2]) => l[i][1] < l[j][1]

\* C10: two entries of a list at the same distance are in the order of
\* their stations in the stations sequence.
C10_TiesInStationOrder ==
    Ranked =>
        \A k \in 1..Len(events) :
            /\ InStationOrder(events[k].stations_with_slots)
            /\ InStationOrder(events[k].stations_with_bikes)

\* C10 witness: two stations at different places and the same distance
\* were listed in their order behind a nearer station given last.
C10_Witness ==
    /\ Ranked
    /\ Len(stations) = 3
    /\ \E k \in 1..Len(events) :
        /\ events[k].coords = P0
        /\ stations[1].coords # stations[2].coords
        /\ events[k].stations_with_slots = <<<<3, 0>>, <<1, 100076>>, <<2, 100076>>>>

\* ------------------------------------------------------------------------
\* main: the pipeline from the arguments to the report.

LB == Tok("[")

RB == Tok("]")

LP == Tok("(")

RP == Tok(")")

CM == Tok(",")

SA == StrTok(<<"a">>)

SAB == StrTok(<<"a", "b">>)

NUM == Tok("num")

NAME == Tok("name")

\* The query texts: 'a'   'a' 'ab'   ['a', 'ab']   ('a', 'ab')   ('a')
\* ('ab',)   []   ()   'a', 'ab'   [('a', 'ab'), 'a']   5   ('ab', 5)
\* [5]   the empty text   name   ['a'   ('a']   [,]   ['a', name]
KeyTexts ==
    {<<SA>>, <<SA, SAB>>, <<LB, SA, CM, SAB, RB>>, <<LP, SA, CM, SAB, RP>>,
     <<LP, SA, RP>>, <<LP, SAB, CM, RP>>, <<LB, RB>>, <<LP, RP>>,
     <<SA, CM, SAB>>, <<LB, LP, SA, CM, SAB, RP, CM, SA, RB>>,
     <<NUM>>, <<LP, SAB, CM, NUM, RP>>, <<LB, NUM, RB>>,
     <<>>, <<NAME>>, <<LB, SA>>, <<LP, SA, RB>>, <<LB, CM, RB>>,
     <<LB, SA, CM, NAME, RB>>}

\* The --date texts: two dates, a day no month has, a month past December.
DateArgs ==
    {NoneValue, DateText(1, 6, 2018), DateText(2, 6, 2018), DateText(31, 6, 2018),
     DateText(1, 13, 2018)}

ActeKinds ==
    {[nom |-> <<"a", "b">>, lloc_nom |-> <<"b">>, adreca_simple |-> <<<<"a">>>>,
      data_proper_acte |-> DateText(1, 6, 2018),
      googleMaps |-> [lat |-> <<413851>>, lon |-> <<21734>>]],
     [nom |-> <<"b">>, lloc_nom |-> <<"a">>, adreca_simple |-> <<>>,
      data_proper_acte |-> DateText(2, 6, 2018),
      googleMaps |-> NoneValue],
     [nom |-> <<"b">>, lloc_nom |-> <<"b">>,
      adreca_simple |-> <<<<"b">>, <<>>, <<"a", "b">>>>,
      data_proper_acte |-> DateText(1, 6, 2018),
      googleMaps |-> [lat |-> <<>>, lon |-> <<21734>>]],
     [nom |-> <<"b", "b">>, lloc_nom |-> <<"b">>, adreca_simple |-> <<<<"b">>>>,
      data_proper_acte |-> DateText(2, 6, 2018),
      googleMaps |-> [lat |-> <<413860>>, lon |-> <<21734>>]]}

Feeds == SeqsUpTo(ActeKinds, MaxFeed)

StationElement(sl, b, c, st, num) ==
    [slots |-> <<sl>>, bikes |-> <<b>>, lat |-> <<c.latitude>>,
     long |-> <<c.longitude>>, street |-> st, streetNumber |-> num]

BicingFeeds ==
    {<<>>,
     <<StationElement(0, 4, P1, <<"b">>, 4), StationElement(3, 0, P0, <<"a">>, 1)>>,
     <<StationElement(2, 2, P3, <<"a">>, 7), StationElement(1, 0, P4, <<"b">>, 3),
       StationElement(5, 2, P1, <<"a">>, 2)>>}

Init ==
    /\ pc = "start"
    /\ key \in KeyTexts
    /\ date_arg \in DateArgs
    /\ max_distance \in Limits
    /\ today_feed = <<>>
    /\ monthly_feed = <<>>
    /\ bicing_feed = <<>>
    /\ search_terms = NoneValue
    /\ date = NoneValue
    /\ events = <<>>
    /\ stations = <<>>
    /\ fetched = {}
    /\ report = NoReport
    /\ result = "pending"

\* line 204 with the exception caught
ErrorSwallowed(r) == "date"

\* line 204: an exception of ast.literal_eval leaves main
AfterLiteralEval(r) == IF r.ok THEN "date" ELSE "error"

\* line 204
LiteralEval ==
    /\ pc = "start"
    /\ LET r == literal_eval(key)
       IN  /\ search_terms' = r.val
           /\ pc' = AfterLiteralEval(r)
    /\ UNCHANGED <<key, date_arg, today_feed, monthly_feed, bicing_feed, date,
                   events, stations, max_distance, fetched, report, result>>

\* lines 205-206
ParseDate ==
    /\ pc = "date"
    /\ IF date_arg = NoneValue
       THEN pc' = "today" /\ date' = date
       ELSE LET r == strptime(date_arg)
            IN  /\ date' = r.val
                /\ pc' = IF r.ok THEN "monthly" ELSE "error"
    /\ UNCHANGED <<key, date_arg, today_feed, monthly_feed, bicing_feed,
                   search_terms, events, stations, max_distance, fetched,
                   report, result>>

\* line 207
FindMonthlyEvents ==
    /\ pc = "monthly"
    /\ \E feed \in Feeds :
        LET r == find_monthly_events(feed, search_terms, date)
        IN  /\ monthly_feed' = feed
            /\ fetched' = fetched \cup {"MONTHLY_EVENTS_URL"}
            /\ events' = r.events
            /\ pc' = IF r.raised THEN "error" ELSE "write"
    /\ UNCHANGED <<key, date_arg, today_feed, bicing_feed, search_terms, date,
                   stations, max_distance, report, result>>

\* line 210
FindTodayEvents ==
    /\ pc = "today"
    /\ \E feed \in Feeds :
        LET r == find_today_events(feed, search_terms)
        IN  /\ today_feed' = feed
            /\ fetched' = fetched \cup {"TODAY_EVENTS_URL"}
            /\ events' = r.events
            /\ pc' = IF r.raised THEN "error" ELSE "stations"
    /\ UNCHANGED <<key, date_arg, monthly_feed, bicing_feed, search_terms, date,
                   stations, max_distance, report, result>>

\* line 211
GetBicingStations ==
    /\ pc = "stations"
    /\ \E feed \in BicingFeeds :
        /\ bicing_feed' = feed
        /\ fetched' = fetched \cup {"BICING_URL"}
        /\ stations' = get_bicing_stations(feed)
    /\ pc' = "rank"
    /\ UNCHANGED <<key, date_arg, today_feed, monthly_feed, search_terms, date,
                   events, max_distance, report, result>>

\* line 214
WriteHtml ==
    /\ pc = "write"
    /\ report' = [written |-> TRUE, rows |-> Rows(events, stations)]
    /\ pc' = "done"
    /\ UNCHANGED <<key, date_arg, today_feed, monthly_feed, bicing_feed,
                   search_terms, date, events, stations, max_distance,
                   fetched, result>>

Next ==
    \/ LiteralEval
    \/ ParseDate
    \/ FindMonthlyEvents
    \/ FindTodayEvents
    \/ GetBicingStations
    \/ SetNearestStations
    \/ WriteHtml

Spec == Init /\ [][Next]_vars

\* No step of the pipeline has run: no feed fetched, no event matched or
\* ranked, no report written.
NothingRan ==
    /\ fetched = {}
    /\ today_feed = <<>> /\ monthly_feed = <<>> /\ bicing_feed = <<>>
    /\ events = <<>> /\ stations = <<>>
    /\ report = NoReport

\* C6 as stated: a query text that does not parse into a tree of terms,
\* conjunctions and disjunctions only is an error at once, and nothing runs.
C6_IllFormedQueryStops ==
    ~(literal_eval(key).ok /\ WellFormed(literal_eval(key).val))
        => (NothingRan /\ pc \notin {"write", "done"})

\* C6 amended: a query text that ast.literal_eval rejects is an error at
\* once, and nothing runs.
C6_UnparsableQueryStops ==
    (~literal_eval(key).ok) => (NothingRan /\ pc \in {"start", "error"})

\* C6 witness: the text ['a', name] was rejected.
C6_Witness ==
    /\ pc = "error"
    /\ key = <<LB, SA, CM, NAME, RB>>
    /\ NothingRan

\* The indices of the feed's elements whose event check_event accepts.
Accepted(feed, terms) ==
    {i \in 1..Len(feed) : check_event(EventFromElementTree(feed[i]), terms) = "True"}

\* evs is the events of the feed's elements at the indices in keep, in the
\* feed's order, each once.
SubsequenceAt(evs, feed, keep) ==
    /\ Len(evs) = Cardinality(keep)
    /\ \A i \in keep :
        evs[Cardinality({j \in keep : j <= i})] = EventFromElementTree(feed[i])

\* C7: find_today_events returns exactly the feed's events that check_event
\* accepts, in the feed's order, none dropped, doubled or moved; an empty
\* result is no error.
C7_TodayIsFilteredFeed ==
    /\ pc = "stations" => SubsequenceAt(events, today_feed, Accepted(today_feed, search_terms))
    /\ ("TODAY_EVENTS_URL" \in fetched /\ Accepted(today_feed, search_terms) = {})
            => (pc # "error" /\ events = <<>>)

\* C7 witness: of a feed of two events the second alone was returned.
C7_Witness ==
    /\ pc = "stations"
    /\ Len(today_feed) = 2
    /\ today_feed[1] # today_feed[2]
    /\ events = <<EventFromElementTree(today_feed[2])>>

\* C8: with a date argument the renderer gets exactly the feed's events on
\* the target date that match, in the feed's order; the stations are never
\* fetched, the ranker never runs, and every event's two lists are empty.
C8_DateModeSkipsRanking ==
    date_arg # NoneValue =>
        /\ pc \notin {"today", "stations", "rank"}
        /\ fetched \subseteq {"MONTHLY_EVENTS_URL"}
        /\ bicing_feed = <<>> /\ stations = <<>>
        /\ pc \in {"write", "done"} =>
            /\ SubsequenceAt(events, monthly_feed,
                    {i \in Accepted(monthly_feed, search_terms) :
                        strptime(monthly_feed[i].data_proper_acte).val = strptime(date_arg).val})
            /\ \A k \in 1..Len(events) :
                /\ events[k].stations_with_bikes = <<>>
                /\ events[k].stations_with_slots = <<>>
        /\ pc = "done" =>
            /\ Len(report.rows) = Len(events)
            /\ \A k \in 1..Len(report.rows) :
                /\ report.rows[k].name = events[k].name
                /\ report.rows[k].stations_with_bikes = <<>>
                /\ report.rows[k].stations_with_slots = <<>>

\* C8 witness: in date mode a feed of two matching events, the first on
\* another day, was rendered as the second event alone.
C8_Witness ==
    /\ pc = "done"
    /\ date_arg = DateText(1, 6, 2018)
    /\ Len(monthly_feed) = 2
    /\ monthly_feed[1].data_proper_acte = DateText(2, 6, 2018)
    /\ Accepted(monthly_feed, search_terms) = {1, 2}
    /\ Len(report.rows) = 1
    /\ report.rows[1].name = monthly_feed[2].nom
====
